---- MODULE Spec2Model ----
(***************************************************************************)
(* Model of the docfusiondb query-result cache (src/src/cache.rs), of the   *)
(* request handlers around it (execute_query, create_document and          *)
(* bulk_create_documents in src/src/api/mod.rs), and of the predicate      *)
(* translator, the JSON scalar functions and the table scan                *)
(* (src/src/lib.rs).                                                       *)
(*                                                                         *)
(* Texts (cache keys, SQL strings) are sequences of one-character strings. *)
(* An Option<T> is a sequence of length 0 (None) or 1 (Some).              *)
(***************************************************************************)
EXTENDS Integers, Sequences, FiniteSets, TLC

VARIABLES
    inner,        \* CacheInner: entries, access_order, hits, misses
    ttl,          \* QueryCache.ttl
    max_size,     \* QueryCache.max_size
    poisoned,     \* the RwLock around CacheInner is poisoned
    now,          \* the monotonic clock read by Instant::now / elapsed
    reqs,         \* execute_query requests in flight
    last,         \* the operation that ran last and what it returned
    lru_order,    \* history: stored keys by last insertion or get hit, oldest first
    last_put,     \* history: for each stored key, time and rows of its latest put
    n_in,         \* normalisation: the two input texts
    n_out,        \* normalisation: the keys computed from them
    lock,         \* concurrent callers: who holds the RwLock, and in which mode
    thr,          \* concurrent callers: each caller's position and locals
    x_in,         \* translator, scalar functions, scan: the arguments of the call;
                  \* document handlers: the documents table
    x_out         \* translator, scalar functions, scan: what the calls returned

vars == <<inner, ttl, max_size, poisoned, now, reqs, last, lru_order, last_put, n_in, n_out,
         lock, thr, x_in, x_out>>

----------------------------------------------------------------------------
(* Bounds *)

NumKeys == 3
MaxSize == 2
MaxTtl == 1
MaxTime == 2
MaxCount == 3
NumTags == 1
NumReq == 1
NumThreads == 2
MaxLen == 2
MaxFilters == 3
MaxDepth == 2
MaxRows == 2

(* Program constants *)

CacheRowLimit == 1000

----------------------------------------------------------------------------
(* Values *)

KeyNames == <<"a", "b", "c", "d", "e">>

Keys == { <<KeyNames[i]>> : i \in 1..NumKeys }

RowLens == {CacheRowLimit, CacheRowLimit + 1}

RowSets == { [tag |-> t, len |-> n] : t \in 1..NumTags, n \in RowLens }

None == <<>>

Some(x) == <<x>>

----------------------------------------------------------------------------
(* Key normalisation *)

Whitespace == {" "}

Alphabet == {"a", "A", " ", "'"}

Texts == UNION { [1..n -> Alphabet] : n \in 0..MaxLen }

to_lowercase_char(c) == IF c = "A" THEN "a" ELSE c

to_lowercase(s) == [i \in 1..Len(s) |-> to_lowercase_char(s[i])]

RECURSIVE trim_start(_)
trim_start(s) ==
    IF s # <<>> /\ Head(s) \in Whitespace THEN trim_start(Tail(s)) ELSE s

RECURSIVE trim_end(_)
trim_end(s) ==
    IF s # <<>> /\ s[Len(s)] \in Whitespace
    THEN trim_end(SubSeq(s, 1, Len(s) - 1))
    ELSE s

trim(s) == trim_end(trim_start(s))

\* normalize_query, but only leading whitespace is removed
normalize_query_trim_start(sql) == to_lowercase(trim_start(sql))

normalize_query(sql) == to_lowercase(trim(sql))

Sqls == { <<"a">>, <<"A">>, <<" ", "a">>, <<"b">> }

----------------------------------------------------------------------------
(* The cache operations, as functions of CacheInner *)

Retain(order, q) == SelectSeq(order, LAMBDA x : x # q)

Contains(order, q) == \E i \in 1..Len(order) : order[i] = q

Without(f, k) == [x \in (DOMAIN f) \ {k} |-> f[x]]

Insert(f, k, v) == [x \in (DOMAIN f) \cup {k} |-> IF x = k THEN v ELSE f[x]]

Elapsed(entry, t) == t - entry.created_at

EmptyMap == [x \in {} |-> 0]

new(ttl_seconds, size) ==
    [entries |-> EmptyMap, access_order |-> <<>>, hits |-> 0, misses |-> 0]

\* get, but a hit leaves the recency order as it was
get_no_refresh(c, query, t) ==
    IF query \in DOMAIN c.entries /\ Elapsed(c.entries[query], t) > ttl
    THEN [inner |-> [c EXCEPT !.entries = Without(c.entries, query),
                              !.access_order = Retain(c.access_order, query)],
          ret |-> None, path |-> "expired"]
    ELSE IF query \in DOMAIN c.entries
    THEN [inner |-> [c EXCEPT !.entries[query].access_count = @ + 1,
                              !.hits = @ + 1],
          ret |-> Some(c.entries[query].data), path |-> "hit"]
    ELSE [inner |-> [c EXCEPT !.misses = @ + 1], ret |-> None, path |-> "miss"]

\* get, but a hit restarts the entry's time to live
get_refreshing(c, query, t) ==
    IF query \in DOMAIN c.entries /\ Elapsed(c.entries[query], t) > ttl
    THEN [inner |-> [c EXCEPT !.entries = Without(c.entries, query),
                              !.access_order = Retain(c.access_order, query)],
          ret |-> None, path |-> "expired"]
    ELSE IF query \in DOMAIN c.entries
    THEN [inner |-> [c EXCEPT !.entries[query].access_count = @ + 1,
                              !.entries[query].created_at = t,
                              !.access_order = Append(Retain(c.access_order, query), query),
                              !.hits = @ + 1],
          ret |-> Some(c.entries[query].data), path |-> "hit"]
    ELSE [inner |-> [c EXCEPT !.misses = @ + 1], ret |-> None, path |-> "miss"]

\* get, but a hit is counted as a miss as well
get_miscounting(c, query, t) ==
    IF query \in DOMAIN c.entries /\ Elapsed(c.entries[query], t) > ttl
    THEN [inner |-> [c EXCEPT !.entries = Without(c.entries, query),
                              !.access_order = Retain(c.access_order, query)],
          ret |-> None, path |-> "expired"]
    ELSE IF query \in DOMAIN c.entries
    THEN [inner |-> [c EXCEPT !.entries[query].access_count = @ + 1,
                              !.access_order = Append(Retain(c.access_order, query), query),
                              !.hits = @ + 1,
                              !.misses = @ + 1],
          ret |-> Some(c.entries[query].data), path |-> "hit"]
    ELSE [inner |-> [c EXCEPT !.misses = @ + 1], ret |-> None, path |-> "miss"]

get(c, query, t) ==
    IF query \in DOMAIN c.entries /\ Elapsed(c.entries[query], t) > ttl
    THEN [inner |-> [c EXCEPT !.entries = Without(c.entries, query),
                              !.access_order = Retain(c.access_order, query)],
          ret |-> None, path |-> "expired"]
    ELSE IF query \in DOMAIN c.entries
    THEN [inner |-> [c EXCEPT !.entries[query].access_count = @ + 1,
                              !.access_order = Append(Retain(c.access_order, query), query),
                              !.hits = @ + 1],
          ret |-> Some(c.entries[query].data), path |-> "hit"]
    ELSE [inner |-> [c EXCEPT !.misses = @ + 1], ret |-> None, path |-> "miss"]

lru_key(c, query) ==
    IF Cardinality(DOMAIN c.entries) >= max_size /\ query \notin DOMAIN c.entries
       /\ c.access_order # <<>>
    THEN Some(Head(c.access_order))
    ELSE None

\* put, but entries past their time to live are dropped before the size check
put_sweeping(c, query, result, t) ==
    LET live == { k \in DOMAIN c.entries : Elapsed(c.entries[k], t) <= ttl }
        c0 == [c EXCEPT !.entries = [k \in live |-> c.entries[k]],
                        !.access_order = SelectSeq(c.access_order, LAMBDA k : k \in live)]
        victim == lru_key(c0, query)
        c1 == IF victim # None
              THEN [c0 EXCEPT !.entries = Without(c0.entries, victim[1]),
                              !.access_order = Retain(c0.access_order, victim[1])]
              ELSE c0
        entry == [data |-> result, created_at |-> t, access_count |-> 1]
    IN  [c1 EXCEPT !.entries = Insert(c1.entries, query, entry),
                   !.access_order = IF Contains(c1.access_order, query)
                                    THEN c1.access_order
                                    ELSE Append(c1.access_order, query)]

put(c, query, result, t) ==
    LET victim == lru_key(c, query)
        c1 == IF victim # None
              THEN [c EXCEPT !.entries = Without(c.entries, victim[1]),
                             !.access_order = Retain(c.access_order, victim[1])]
              ELSE c
        entry == [data |-> result, created_at |-> t, access_count |-> 1]
    IN  [c1 EXCEPT !.entries = Insert(c1.entries, query, entry),
                   !.access_order = IF Contains(c1.access_order, query)
                                    THEN c1.access_order
                                    ELSE Append(c1.access_order, query)]

\* clear, but the recency order is left as it was
clear_keeping_order(c) == [c EXCEPT !.entries = EmptyMap]

\* clear, but the counters start again from zero
clear_resetting(c) ==
    [c EXCEPT !.entries = EmptyMap, !.access_order = <<>>, !.hits = 0, !.misses = 0]

clear(c) == [c EXCEPT !.entries = EmptyMap, !.access_order = <<>>]

RECURSIVE SumAccess(_, _)
SumAccess(entries, ks) ==
    IF ks = {} THEN 0
    ELSE LET k == CHOOSE x \in ks : TRUE
         IN entries[k].access_count + SumAccess(entries, ks \ {k})

stats(c) ==
    [entries |-> Cardinality(DOMAIN c.entries),
     max_size |-> max_size,
     total_accesses |-> SumAccess(c.entries, DOMAIN c.entries),
     ttl_seconds |-> ttl]

get_stats(c, lock_ok) ==
    IF ~lock_ok
    THEN [size |-> 0, hit_rate |-> <<0, 1>>, entries |-> 0, max_size |-> max_size,
          total_accesses |-> 0, ttl_seconds |-> ttl]
    ELSE [size |-> Cardinality(DOMAIN c.entries),
          hit_rate |-> IF c.hits + c.misses > 0
                       THEN <<c.hits, c.hits + c.misses>>
                       ELSE <<0, 1>>,
          entries |-> Cardinality(DOMAIN c.entries),
          max_size |-> max_size,
          total_accesses |-> SumAccess(c.entries, DOMAIN c.entries),
          ttl_seconds |-> ttl]

----------------------------------------------------------------------------
(* History bookkeeping *)

Restrict(order, S) == SelectSeq(order, LAMBDA x : x \in S)

Record(op, key, ret, path, evicted) ==
    [op |-> op, key |-> key, ret |-> ret, path |-> path, evicted |-> evicted,
     sql |-> <<>>, stat |-> None, panic |-> FALSE]

\* lru_order after an operation that left the entries `after` and used `used`
Touch(after, used) ==
    IF used = None
    THEN Restrict(lru_order, DOMAIN after)
    ELSE Append(Restrict(lru_order, (DOMAIN after) \ {used[1]}), used[1])

\* last_put after an operation that left the entries `after` and stored `stored`
Log(after, stored, result) ==
    [x \in DOMAIN after |->
        IF stored # None /\ x = stored[1] THEN [at |-> now, rows |-> result] ELSE last_put[x]]

IdleReq == [pc |-> "idle", sql |-> <<>>, key |-> <<>>]

Threads == 1..NumThreads

IdleThr ==
    [pc |-> "idle", op |-> "", key |-> <<>>, rows |-> None, t |-> 0, pre |-> None,
     tmp |-> 0, victim |-> None, data |-> None]

\* the result sets the concurrent callers store: those small enough to cache
ConcRows == { r \in RowSets : r.len <= CacheRowLimit }

Unlocked == [writers |-> {}, readers |-> {}]

----------------------------------------------------------------------------
(* The cache operations as steps of the program *)

Init ==
    /\ ttl \in 0..MaxTtl
    /\ max_size \in 0..MaxSize
    /\ inner = new(ttl, max_size)
    /\ poisoned = FALSE
    /\ now = 0
    /\ reqs = [r \in 1..NumReq |-> IdleReq]
    /\ last = Record("new", <<>>, None, "", None)
    /\ lru_order = <<>>
    /\ last_put = EmptyMap
    /\ n_in = <<>>
    /\ n_out = <<>>
    /\ lock = Unlocked
    /\ thr = [t \in Threads |-> IdleThr]
    /\ x_in = <<>>
    /\ x_out = <<>>

Get(k) ==
    /\ inner.hits + inner.misses < MaxCount
    /\ IF poisoned
       THEN /\ last' = Record("get", k, None, "lock_err", None)
            /\ UNCHANGED <<inner, lru_order, last_put>>
       ELSE LET r == get(inner, k, now)
            IN /\ inner' = r.inner
               /\ last' = Record("get", k, r.ret, r.path, None)
               /\ lru_order' = Touch(r.inner.entries, IF r.path = "hit" THEN Some(k) ELSE None)
               /\ last_put' = Log(r.inner.entries, None, None)
    /\ UNCHANGED <<ttl, max_size, poisoned, now, reqs, n_in, n_out, lock, thr, x_in, x_out>>

Put(k, result) ==
    /\ IF poisoned
       THEN /\ last' = Record("put", k, None, "lock_err", None)
            /\ UNCHANGED <<inner, lru_order, last_put>>
       ELSE LET c == put(inner, k, result, now)
            IN /\ inner' = c
               /\ last' = Record("put", k, None,
                                 IF k \in DOMAIN inner.entries THEN "overwrite" ELSE "insert",
                                 lru_key(inner, k))
               /\ lru_order' = Touch(c.entries,
                                     IF k \in DOMAIN inner.entries THEN None ELSE Some(k))
               /\ last_put' = Log(c.entries, Some(k), result)
    /\ UNCHANGED <<ttl, max_size, poisoned, now, reqs, n_in, n_out, lock, thr, x_in, x_out>>

Clear ==
    /\ IF poisoned
       THEN /\ last' = Record("clear", <<>>, None, "lock_err", None)
            /\ UNCHANGED <<inner, lru_order, last_put>>
       ELSE /\ inner' = clear(inner)
            /\ last' = Record("clear", <<>>, None, "cleared", None)
            /\ lru_order' = <<>>
            /\ last_put' = EmptyMap
    /\ UNCHANGED <<ttl, max_size, poisoned, now, reqs, n_in, n_out, lock, thr, x_in, x_out>>

Stats ==
    /\ last' = IF poisoned
               THEN [Record("stats", <<>>, None, "lock_err", None) EXCEPT !.panic = TRUE]
               ELSE [Record("stats", <<>>, None, "read", None) EXCEPT !.stat = Some(stats(inner))]
    /\ UNCHANGED <<inner, ttl, max_size, poisoned, now, reqs, lru_order, last_put, n_in, n_out, lock, thr, x_in, x_out>>

GetStats ==
    /\ last' = [Record("get_stats", <<>>, None, IF poisoned THEN "lock_err" ELSE "read", None)
                   EXCEPT !.stat = Some(get_stats(inner, ~poisoned))]
    /\ UNCHANGED <<inner, ttl, max_size, poisoned, now, reqs, lru_order, last_put, n_in, n_out, lock, thr, x_in, x_out>>

\* A writer that panics while it holds the lock leaves the lock poisoned.
PoisonLock ==
    /\ ~poisoned
    /\ poisoned' = TRUE
    /\ last' = Record("poison", <<>>, None, "", None)
    /\ UNCHANGED <<inner, ttl, max_size, now, reqs, lru_order, last_put, n_in, n_out, lock, thr, x_in, x_out>>

Tick ==
    /\ now < MaxTime
    /\ now' = now + 1
    /\ last' = Record("tick", <<>>, None, "", None)
    /\ UNCHANGED <<inner, ttl, max_size, poisoned, reqs, lru_order, last_put, n_in, n_out, lock, thr, x_in, x_out>>

----------------------------------------------------------------------------
(* execute_query: cache lookup, then (after awaiting the engine) cache insert *)

Lookup(r, sql) ==
    /\ reqs[r].pc = "idle"
    /\ inner.hits + inner.misses < MaxCount
    /\ LET cache_key == normalize_query(sql)
           g == IF poisoned
                THEN [inner |-> inner, ret |-> None, path |-> "lock_err"]
                ELSE get(inner, cache_key, now)
       IN /\ inner' = g.inner
          /\ lru_order' = Touch(g.inner.entries, IF g.path = "hit" THEN Some(cache_key) ELSE None)
          /\ last_put' = Log(g.inner.entries, None, None)
          /\ IF g.ret # None
             THEN /\ reqs' = reqs
                  /\ last' = [Record("execute_query", cache_key, g.ret, "cached", None)
                                 EXCEPT !.sql = sql]
             ELSE /\ reqs' = [reqs EXCEPT ![r] = [pc |-> "running", sql |-> sql, key |-> cache_key]]
                  /\ last' = [Record("lookup", cache_key, None, g.path, None) EXCEPT !.sql = sql]
    /\ UNCHANGED <<ttl, max_size, poisoned, now>>

ExecLookup(r, sql) == Lookup(r, sql) /\ UNCHANGED <<n_in, n_out, lock, thr, x_in, x_out>>

ExecFail(r) ==
    /\ reqs[r].pc = "running"
    /\ reqs' = [reqs EXCEPT ![r] = IdleReq]
    /\ last' = [Record("execute_query", reqs[r].key, None, "failed", None)
                   EXCEPT !.sql = reqs[r].sql]
    /\ UNCHANGED <<inner, ttl, max_size, poisoned, now, lru_order, last_put, n_in, n_out, lock, thr, x_in, x_out>>

\* ExecFinish, but the result is stored whatever its size
ExecFinish_any_size(r, rows) ==
    /\ reqs[r].pc = "running"
    /\ LET cache_key == reqs[r].key
           cached == ~poisoned
           c == IF cached THEN put(inner, cache_key, rows, now) ELSE inner
       IN /\ inner' = c
          /\ lru_order' = Touch(c.entries,
                                IF cached /\ cache_key \notin DOMAIN inner.entries
                                THEN Some(cache_key) ELSE None)
          /\ last_put' = Log(c.entries, IF cached THEN Some(cache_key) ELSE None, rows)
          /\ last' = [Record("execute_query", cache_key, Some(rows),
                             IF rows.len <= CacheRowLimit THEN "executed_cached" ELSE "executed",
                             IF cached THEN lru_key(inner, cache_key) ELSE None)
                         EXCEPT !.sql = reqs[r].sql]
    /\ reqs' = [reqs EXCEPT ![r] = IdleReq]
    /\ UNCHANGED <<ttl, max_size, poisoned, now, n_in, n_out, lock, thr, x_in, x_out>>

ExecFinish(r, rows) ==
    /\ reqs[r].pc = "running"
    /\ LET cache_key == reqs[r].key
           cached == rows.len <= CacheRowLimit /\ ~poisoned
           c == IF cached THEN put(inner, cache_key, rows, now) ELSE inner
       IN /\ inner' = c
          /\ lru_order' = Touch(c.entries,
                                IF cached /\ cache_key \notin DOMAIN inner.entries
                                THEN Some(cache_key) ELSE None)
          /\ last_put' = Log(c.entries, IF cached THEN Some(cache_key) ELSE None, rows)
          /\ last' = [Record("execute_query", cache_key, Some(rows),
                             IF cached THEN "executed_cached" ELSE "executed",
                             IF cached THEN lru_key(inner, cache_key) ELSE None)
                         EXCEPT !.sql = reqs[r].sql]
    /\ reqs' = [reqs EXCEPT ![r] = IdleReq]
    /\ UNCHANGED <<ttl, max_size, poisoned, now, n_in, n_out, lock, thr, x_in, x_out>>

CacheNext ==
    \/ \E k \in Keys : Get(k)
    \/ \E k \in Keys, result \in RowSets : Put(k, result)
    \/ Clear
    \/ Tick

\* The cache under every sequence of get, put and clear.
Spec == Init /\ [][CacheNext]_vars

FaultNext ==
    \/ CacheNext
    \/ Stats
    \/ GetStats
    \/ PoisonLock

\* The cache with its statistics readers and a lock that can be poisoned.
SpecFault == Init /\ [][FaultNext]_vars

ApiNext ==
    \/ \E r \in 1..NumReq, sql \in Sqls : ExecLookup(r, sql)
    \/ \E r \in 1..NumReq : ExecFail(r)
    \/ \E r \in 1..NumReq, rows \in RowSets : ExecFinish(r, rows)
    \/ Tick

\* The cache as the request handler drives it.
SpecApi == Init /\ [][ApiNext]_vars

----------------------------------------------------------------------------
(* create_document and bulk_create_documents next to execute_query.  In this
   specification x_in is the documents table: the ids of the inserted rows. *)

MaxDocs == 2

\* bulk_create_documents rejects a request of more documents than this
BulkLimit == 1000

\* the table after an INSERT of n documents
Inserted(table, n) == table \o [i \in 1..n |-> Len(table) + i]

\* create_document, but a new document invalidates the query cache
CreateDocument_invalidating(is_object, db_ok) ==
    /\ Len(x_in) < MaxDocs
    /\ x_in' = IF is_object /\ db_ok THEN Inserted(x_in, 1) ELSE x_in
    /\ last' = Record("create_document", <<>>, None,
                      IF ~is_object THEN "bad_request"
                      ELSE IF ~db_ok THEN "error" ELSE "created", None)
    /\ inner' = IF is_object /\ db_ok THEN clear(inner) ELSE inner
    /\ lru_order' = Touch(inner'.entries, None)
    /\ last_put' = Log(inner'.entries, None, None)
    /\ UNCHANGED <<ttl, max_size, poisoned, now, reqs, n_in, n_out, lock, thr, x_out>>

\* POST /documents: one document, which must be a JSON object; db_ok is
\* whether the pool gave a connection and the INSERT succeeded.
CreateDocument(is_object, db_ok) ==
    /\ Len(x_in) < MaxDocs
    /\ x_in' = IF is_object /\ db_ok THEN Inserted(x_in, 1) ELSE x_in
    /\ last' = Record("create_document", <<>>, None,
                      IF ~is_object THEN "bad_request"
                      ELSE IF ~db_ok THEN "error" ELSE "created", None)
    /\ UNCHANGED <<inner, ttl, max_size, poisoned, now, reqs, lru_order, last_put,
                   n_in, n_out, lock, thr, x_out>>

\* POST /documents/bulk: count documents, all of them JSON objects or not.
BulkCreateDocuments(count, all_objects, db_ok) ==
    LET accepted == count # 0 /\ count <= BulkLimit /\ all_objects
    IN /\ accepted /\ db_ok => Len(x_in) + count <= MaxDocs
       /\ x_in' = IF accepted /\ db_ok THEN Inserted(x_in, count) ELSE x_in
       /\ last' = Record("bulk_create_documents", <<>>, None,
                         IF ~accepted THEN "bad_request"
                         ELSE IF ~db_ok THEN "error" ELSE "created", None)
       /\ UNCHANGED <<inner, ttl, max_size, poisoned, now, reqs, lru_order, last_put,
                      n_in, n_out, lock, thr, x_out>>

\* The query finishes with rows computed from the table as it is now.
DocsFinish(r, len) == ExecFinish(r, [tag |-> Len(x_in), len |-> len])

DocsNext ==
    \/ \E r \in 1..NumReq, sql \in Sqls : ExecLookup(r, sql)
    \/ \E r \in 1..NumReq : ExecFail(r)
    \/ \E r \in 1..NumReq, len \in RowLens : DocsFinish(r, len)
    \/ \E is_object, db_ok \in BOOLEAN : CreateDocument(is_object, db_ok)
    \/ \E count \in {0, 1, MaxDocs, BulkLimit + 1}, all_objects, db_ok \in BOOLEAN :
           BulkCreateDocuments(count, all_objects, db_ok)
    \/ Tick

\* The handlers that write documents and the handler that queries them.
SpecDocs == Init /\ [][DocsNext]_vars

----------------------------------------------------------------------------
(* Two query texts and the cache keys execute_query computes for them *)

InitNorm ==
    /\ ttl = MaxTtl
    /\ max_size = MaxSize
    /\ inner = new(ttl, max_size)
    /\ poisoned = FALSE
    /\ now = 0
    /\ reqs = [r \in 1..NumReq |-> IdleReq]
    /\ last = Record("new", <<>>, None, "", None)
    /\ lru_order = <<>>
    /\ last_put = EmptyMap
    /\ n_in \in Texts \X Texts
    /\ n_out = <<None, None>>
    /\ lock = Unlocked
    /\ thr = [t \in Threads |-> IdleThr]
    /\ x_in = <<>>
    /\ x_out = <<>>

NormLookup(r, i) ==
    /\ Lookup(r, n_in[i])
    /\ n_out' = [j \in 1..2 |-> IF n_in[j] = n_in[i] THEN Some(last'.key) ELSE n_out[j]]
    /\ UNCHANGED <<n_in, lock, thr, x_in, x_out>>

NormNext ==
    \/ \E r \in 1..NumReq, i \in 1..2 : NormLookup(r, i)
    \/ \E r \in 1..NumReq : ExecFail(r)
    \/ \E r \in 1..NumReq, rows \in RowSets : ExecFinish(r, rows)

SpecNorm == InitNorm /\ [][NormNext]_vars

----------------------------------------------------------------------------
(* Concurrent callers: every operation runs statement by statement while it *)
(* holds the RwLock.                                                        *)

\* write(), but handing out the guard whoever holds the lock
TryWrite_unguarded(l) == TRUE

\* write(): an exclusive guard, when nobody holds the lock
TryWrite(l) == l.writers = {} /\ l.readers = {}

\* read(): a shared guard, when no writer holds the lock
TryRead(l) == l.writers = {}

Frame ==
    UNCHANGED <<ttl, max_size, poisoned, reqs, lru_order, last_put, n_in, n_out, x_in, x_out>>

Step(t, pc, f) == [thr EXCEPT ![t] = [f EXCEPT !.pc = pc]]

\* The caller returns: the guard is dropped and the result recorded.
Return(t, op, ret, path) ==
    /\ thr' = [thr EXCEPT ![t] = IdleThr]
    /\ lock' = [lock EXCEPT !.writers = @ \ {t}, !.readers = @ \ {t}]
    /\ last' = Record(op, thr[t].key, ret, path, thr[t].victim)

CallGet(t, k) ==
    /\ thr[t].pc = "idle"
    /\ TryWrite(lock)
    /\ inner.hits + inner.misses < MaxCount
    /\ lock' = [lock EXCEPT !.writers = @ \cup {t}]
    /\ thr' = [thr EXCEPT ![t] = [IdleThr EXCEPT !.pc = "g_check", !.op = "get", !.key = k,
                                                 !.pre = Some(inner)]]
    /\ last' = Record("call", <<>>, None, "", None)
    /\ UNCHANGED <<inner, now>>
    /\ Frame

\* cache.rs:49-59
GetCheck(t) ==
    /\ thr[t].pc = "g_check"
    /\ LET k == thr[t].key
           f == [thr[t] EXCEPT !.t = now]
       IN IF k \in DOMAIN inner.entries /\ Elapsed(inner.entries[k], now) > ttl
          THEN /\ inner' = [inner EXCEPT !.entries = Without(inner.entries, k)]
               /\ thr' = Step(t, "g_expired", f)
          ELSE IF k \in DOMAIN inner.entries
          THEN /\ inner' = [inner EXCEPT !.entries[k].access_count = @ + 1]
               /\ thr' = Step(t, "g_retain", [f EXCEPT !.data = Some(inner.entries[k].data)])
          ELSE /\ inner' = inner
               /\ thr' = Step(t, "g_miss", [f EXCEPT !.tmp = inner.misses])
    /\ UNCHANGED <<lock, now, last>>
    /\ Frame

\* cache.rs:52-53
GetExpired(t) ==
    /\ thr[t].pc = "g_expired"
    /\ inner' = [inner EXCEPT !.access_order = Retain(inner.access_order, thr[t].key)]
    /\ Return(t, "get", None, "expired")
    /\ UNCHANGED now
    /\ Frame

\* cache.rs:64
GetRetain(t) ==
    /\ thr[t].pc = "g_retain"
    /\ inner' = [inner EXCEPT !.access_order = Retain(inner.access_order, thr[t].key)]
    /\ thr' = Step(t, "g_push", thr[t])
    /\ UNCHANGED <<lock, now, last>>
    /\ Frame

\* cache.rs:65, and the load of cache.hits for line 67
GetPush(t) ==
    /\ thr[t].pc = "g_push"
    /\ inner' = [inner EXCEPT !.access_order = Append(inner.access_order, thr[t].key)]
    /\ thr' = Step(t, "g_hit", [thr[t] EXCEPT !.tmp = inner.hits])
    /\ UNCHANGED <<lock, now, last>>
    /\ Frame

\* cache.rs:67-68
GetHit(t) ==
    /\ thr[t].pc = "g_hit"
    /\ inner' = [inner EXCEPT !.hits = thr[t].tmp + 1]
    /\ Return(t, "get", thr[t].data, "hit")
    /\ UNCHANGED now
    /\ Frame

\* cache.rs:72-73
GetMiss(t) ==
    /\ thr[t].pc = "g_miss"
    /\ inner' = [inner EXCEPT !.misses = thr[t].tmp + 1]
    /\ Return(t, "get", None, "miss")
    /\ UNCHANGED now
    /\ Frame

CallPut(t, k, result) ==
    /\ thr[t].pc = "idle"
    /\ TryWrite(lock)
    /\ lock' = [lock EXCEPT !.writers = @ \cup {t}]
    /\ thr' = [thr EXCEPT ![t] = [IdleThr EXCEPT !.pc = "p_check", !.op = "put", !.key = k,
                                                 !.rows = Some(result), !.pre = Some(inner)]]
    /\ last' = Record("call", <<>>, None, "", None)
    /\ UNCHANGED <<inner, now>>
    /\ Frame

\* cache.rs:81-83
PutCheck(t) ==
    /\ thr[t].pc = "p_check"
    /\ LET victim == lru_key(inner, thr[t].key)
       IN IF victim # None
          THEN /\ inner' = [inner EXCEPT !.entries = Without(inner.entries, victim[1])]
               /\ thr' = Step(t, "p_retain", [thr[t] EXCEPT !.victim = victim])
          ELSE /\ inner' = inner
               /\ thr' = Step(t, "p_insert", thr[t])
    /\ UNCHANGED <<lock, now, last>>
    /\ Frame

\* cache.rs:84
PutRetain(t) ==
    /\ thr[t].pc = "p_retain"
    /\ inner' = [inner EXCEPT !.access_order = Retain(inner.access_order, thr[t].victim[1])]
    /\ thr' = Step(t, "p_insert", thr[t])
    /\ UNCHANGED <<lock, now, last>>
    /\ Frame

\* cache.rs:88-94
PutInsert(t) ==
    /\ thr[t].pc = "p_insert"
    /\ inner' = [inner EXCEPT !.entries =
                    Insert(inner.entries, thr[t].key,
                           [data |-> thr[t].rows[1], created_at |-> now, access_count |-> 1])]
    /\ thr' = Step(t, "p_push", [thr[t] EXCEPT !.t = now])
    /\ UNCHANGED <<lock, now, last>>
    /\ Frame

\* cache.rs:97-100
PutPush(t) ==
    /\ thr[t].pc = "p_push"
    /\ inner' = [inner EXCEPT !.access_order =
                    IF Contains(inner.access_order, thr[t].key)
                    THEN inner.access_order
                    ELSE Append(inner.access_order, thr[t].key)]
    /\ Return(t, "put", None, "stored")
    /\ UNCHANGED now
    /\ Frame

CallClear(t) ==
    /\ thr[t].pc = "idle"
    /\ TryWrite(lock)
    /\ lock' = [lock EXCEPT !.writers = @ \cup {t}]
    /\ thr' = [thr EXCEPT ![t] = [IdleThr EXCEPT !.pc = "c_entries", !.op = "clear",
                                                 !.pre = Some(inner)]]
    /\ last' = Record("call", <<>>, None, "", None)
    /\ UNCHANGED <<inner, now>>
    /\ Frame

\* cache.rs:105
ClearEntries(t) ==
    /\ thr[t].pc = "c_entries"
    /\ inner' = [inner EXCEPT !.entries = EmptyMap]
    /\ thr' = Step(t, "c_order", thr[t])
    /\ UNCHANGED <<lock, now, last>>
    /\ Frame

\* cache.rs:106-107
ClearOrder(t) ==
    /\ thr[t].pc = "c_order"
    /\ inner' = [inner EXCEPT !.access_order = <<>>]
    /\ Return(t, "clear", None, "cleared")
    /\ UNCHANGED now
    /\ Frame

\* cache.rs:112 and cache.rs:133
CallStats(t) ==
    /\ thr[t].pc = "idle"
    /\ TryRead(lock)
    /\ lock' = [lock EXCEPT !.readers = @ \cup {t}]
    /\ thr' = [thr EXCEPT ![t] = [IdleThr EXCEPT !.pc = "s_read"]]
    /\ UNCHANGED <<inner, now, last>>
    /\ Frame

\* cache.rs:114-123 and cache.rs:144-162
ReadStats(t, op) ==
    /\ thr[t].pc = "s_read"
    /\ thr' = [thr EXCEPT ![t] = IdleThr]
    /\ lock' = [lock EXCEPT !.readers = @ \ {t}]
    /\ last' = [Record(op, <<>>, None, "read", None) EXCEPT
                   !.stat = Some(IF op = "stats" THEN stats(inner) ELSE get_stats(inner, TRUE))]
    /\ UNCHANGED <<inner, now>>
    /\ Frame

\* Time passes.  Each operation reads the clock once, so a tick inside a
\* critical section acts like one just before or just after it.
Pass ==
    /\ now < MaxTime
    /\ lock.writers = {}
    /\ now' = now + 1
    /\ UNCHANGED <<inner, lock, thr, last>>
    /\ Frame

ConcNext ==
    \/ \E t \in Threads, k \in Keys : CallGet(t, k)
    \/ \E t \in Threads : GetCheck(t)
    \/ \E t \in Threads : GetExpired(t)
    \/ \E t \in Threads : GetRetain(t)
    \/ \E t \in Threads : GetPush(t)
    \/ \E t \in Threads : GetHit(t)
    \/ \E t \in Threads : GetMiss(t)
    \/ \E t \in Threads, k \in Keys, result \in ConcRows : CallPut(t, k, result)
    \/ \E t \in Threads : PutCheck(t)
    \/ \E t \in Threads : PutRetain(t)
    \/ \E t \in Threads : PutInsert(t)
    \/ \E t \in Threads : PutPush(t)
    \/ \E t \in Threads : CallClear(t)
    \/ \E t \in Threads : ClearEntries(t)
    \/ \E t \in Threads : ClearOrder(t)
    \/ \E t \in Threads : CallStats(t)
    \/ \E t \in Threads, op \in {"stats", "get_stats"} : ReadStats(t, op)
    \/ Pass

\* A cache of MaxSize entries that live MaxTtl, before any call.
InitConc == Init /\ ttl = MaxTtl /\ max_size = MaxSize

\* The cache shared by concurrent callers.
SpecConc == InitConc /\ [][ConcNext]_vars

----------------------------------------------------------------------------
(* Properties of the cache *)

Stored == DOMAIN inner.entries

Age(k) == now - last_put[k].at

Oldest == IF inner.access_order = <<>> THEN {} ELSE {Head(inner.access_order)}

\* The step is a call of `op` that acquired the lock.
Ran(op) == last'.op = op /\ last'.path # "lock_err"

C2_SizeBounded == Cardinality(DOMAIN inner.entries) <= max_size

\* C3: a get of a stored key that is older than the TTL removes the entry,
\* returns none, adds exactly one to the miss counter and leaves the hit
\* counter alone.
C3_ExpiredGetCountsMiss ==
    [][(/\ Ran("get")
        /\ last'.key \in Stored
        /\ Age(last'.key) > ttl)
       => /\ last'.key \notin DOMAIN inner'.entries
          /\ last'.ret = None
          /\ inner'.misses = inner.misses + 1
          /\ inner'.hits = inner.hits]_vars

\* C4: get(k) returns rows exactly when k is stored and the time since the
\* latest put(k) is at most the TTL; the entry's timestamp is the time of
\* that put, so no get refreshes it.
C4_HitIffFresh ==
    [][/\ Ran("get") =>
            (last'.ret # None <=> (last'.key \in Stored /\ Age(last'.key) <= ttl))
       /\ \A k \in DOMAIN inner'.entries : inner'.entries[k].created_at = last_put'[k].at]_vars

\* A get at an age exactly equal to the TTL, after an earlier hit, returned rows.
C4_Witness ==
    /\ last.op = "get"
    /\ last.ret # None
    /\ ttl > 0
    /\ Age(last.key) = ttl
    /\ inner.entries[last.key].access_count > 2

\* C5: a get of a stored, unexpired key adds one to the entry's access
\* counter, moves the key to the most-recently-used end, adds one to the hit
\* counter, leaves the miss counter and every other entry alone, and returns
\* the rows of the latest put of that key.
C5_HitEffect ==
    [][(/\ Ran("get")
        /\ last'.key \in Stored
        /\ Age(last'.key) <= ttl)
       => LET k == last'.key
          IN /\ DOMAIN inner'.entries = Stored
             /\ inner'.entries[k] = [inner.entries[k] EXCEPT !.access_count = @ + 1]
             /\ \A x \in Stored \ {k} : inner'.entries[x] = inner.entries[x]
             /\ inner'.access_order = Append(Retain(inner.access_order, k), k)
             /\ inner'.hits = inner.hits + 1
             /\ inner'.misses = inner.misses
             /\ last'.ret = Some(last_put[k].rows)]_vars

\* A hit on the older of two stored keys has moved it behind the other.
C5_Witness ==
    /\ last.op = "get"
    /\ last.ret # None
    /\ Len(inner.access_order) = 2
    /\ inner.access_order[2] = last.key
    /\ inner.entries[last.key].created_at < inner.entries[inner.access_order[1]].created_at

\* C6: every put(k, rows) leaves k stored with the new rows, a fresh
\* timestamp and access count 1, and k last in the recency order.
C6_PutMakesMostRecent ==
    [][Ran("put")
       => LET k == last'.key
          IN /\ k \in DOMAIN inner'.entries
             /\ inner'.entries[k] =
                    [data |-> last_put'[k].rows, created_at |-> now, access_count |-> 1]
             /\ inner'.access_order[Len(inner'.access_order)] = k]_vars

\* C7: expiry is lazy.  Time passing removes nothing; a get removes or
\* changes no entry other than its own key's; a put removes nothing except
\* the head of the recency order, and that only when the key is new and the
\* cache holds max_size entries, expired entries being counted like any other.
C7_LazyExpiry ==
    [][/\ last'.op = "tick" => inner' = inner
       /\ Ran("get") =>
            \A x \in Stored \ {last'.key} :
                x \in DOMAIN inner'.entries /\ inner'.entries[x] = inner.entries[x]
       /\ Ran("put") =>
            /\ Stored \ DOMAIN inner'.entries \subseteq Oldest
            /\ (Cardinality(Stored) >= max_size /\ last'.key \notin Stored /\ Stored # {})
                  => Oldest # {} /\ Oldest \cap DOMAIN inner'.entries = {}
            /\ \A x \in (Stored \cap DOMAIN inner'.entries) \ {last'.key} :
                  inner'.entries[x] = inner.entries[x]]_vars

\* A put into a full cache has evicted an entry while an expired one stays stored.
C7_Witness ==
    /\ last.op = "put"
    /\ last.evicted # None
    /\ \E x \in DOMAIN inner.entries \ {last.key} :
          /\ now - inner.entries[x].created_at > ttl
          /\ last_put[x].at > 0

\* C8: no cache operation aborts its caller; with the lock poisoned, get
\* returns none, put and clear change nothing, and both statistics
\* operations return a value.
C8_NoOperationPanics ==
    [][/\ last'.panic = FALSE
       /\ (poisoned /\ last'.op \in {"get", "put", "clear"}) =>
            (last'.ret = None /\ inner' = inner)
       /\ (poisoned /\ last'.op \in {"stats", "get_stats"}) => last'.stat # None]_vars

----------------------------------------------------------------------------
(* Properties of key normalisation *)

\* s without its leading and trailing whitespace
Core(s) ==
    LET ink == { i \in 1..Len(s) : s[i] \notin Whitespace }
    IN IF ink = {} THEN <<>>
       ELSE SubSeq(s, CHOOSE i \in ink : \A j \in ink : i <= j,
                      CHOOSE i \in ink : \A j \in ink : i >= j)

SameLetter(c, d) == c = d \/ {c, d} = {"a", "A"}

\* s and t are equal after trimming, ignoring letter case
EqFold(s, t) ==
    /\ Len(Core(s)) = Len(Core(t))
    /\ \A i \in 1..Len(Core(s)) : SameLetter(Core(s)[i], Core(t)[i])

\* C10: two query texts get the same cache key exactly when they are equal
\* after trimming, ignoring letter case (inside quotes too); the key of a key
\* is that key; and execute_query looks up and inserts under that key, so
\* such texts share one entry.
C10_NormalizedKey ==
    [][/\ (n_out'[1] # None /\ n_out'[2] # None) =>
            /\ n_out'[1] = n_out'[2] <=> EqFold(n_in[1], n_in[2])
            /\ n_in[2] = n_out'[1][1] => n_out'[2] = n_out'[1]
       /\ \A i \in 1..2 :
            (last'.op \in {"lookup", "execute_query"} /\ last'.sql = n_in[i]) =>
                /\ n_out'[i] # None
                /\ last'.key = n_out'[i][1]
                /\ EqFold(last'.key, n_in[i])
       /\ \A i \in 1..2 :
            (last'.sql = n_in[i] /\ (last'.op = "lookup" \/ last'.path = "cached")) =>
                LET k == n_out'[i][1]
                IN IF k \in Stored
                   THEN /\ last'.path = "cached"
                        /\ last'.ret = Some(inner.entries[k].data)
                        /\ \A j \in 1..2 : (n_out[j] = Some(k)) => EqFold(n_in[j], n_in[i])
                   ELSE /\ last'.op = "lookup"
                        /\ \E r \in 1..NumReq : reqs'[r].pc = "running" /\ reqs'[r].key = k
       /\ \A i \in 1..2 :
            (last'.path = "executed_cached" /\ last'.sql = n_in[i]) =>
                /\ DOMAIN inner'.entries = Stored \cup {n_out[i][1]}
                /\ inner'.entries[n_out[i][1]].data = last'.ret[1]]_vars

\* A query was answered from the entry stored for a text that differs from
\* it only in the case of a letter that follows a quote.
C10_Witness ==
    /\ n_in = << <<"'", "A">>, <<"'", "a">> >>
    /\ last.path = "cached"
    /\ last.sql = n_in[2]
    /\ n_out[1] = n_out[2]
    /\ n_out[1] # None
    /\ inner.hits = 1
    /\ inner.misses = 1

----------------------------------------------------------------------------
(* Properties of the cache under concurrent callers *)

Returns(t) == thr[t].pc # "idle" /\ thr'[t].pc = "idle"

OrderKeys(c) == { c.access_order[i] : i \in 1..Len(c.access_order) }

\* every stored key has exactly one recency position, and nothing else has one
Paired(c) ==
    /\ OrderKeys(c) = DOMAIN c.entries
    /\ Len(c.access_order) = Cardinality(DOMAIN c.entries)

\* the outcome of the whole operation, run alone on the state it found
Alone(f) ==
    IF f.op = "get" THEN get(f.pre[1], f.key, f.t)
    ELSE IF f.op = "put"
    THEN [inner |-> put(f.pre[1], f.key, f.rows[1], f.t), ret |-> None]
    ELSE [inner |-> clear(f.pre[1]), ret |-> None]

\* C9: under every interleaving each get, put and clear takes effect as one
\* step: when it returns, the cache and the returned value are those of the
\* whole operation run alone on the state left by the operations before it,
\* every hit or miss is counted once, and a statistics reader sees every
\* stored key paired with a recency position.
C9_Atomic ==
    [][/\ \A t \in Threads :
            (Returns(t) /\ thr[t].op \in {"get", "put", "clear"}) =>
                /\ inner' = Alone(thr[t]).inner
                /\ last'.ret = Alone(thr[t]).ret
                /\ last'.path = "hit" =>
                      (inner'.hits = thr[t].pre[1].hits + 1 /\ inner'.misses = thr[t].pre[1].misses)
                /\ last'.path = "miss" =>
                      (inner'.misses = thr[t].pre[1].misses + 1 /\ inner'.hits = thr[t].pre[1].hits)
       /\ \A t \in Threads :
            (thr[t].pc = "idle" /\ thr'[t].pc # "idle" /\ thr'[t].op \in {"get", "put", "clear"}) =>
                \A u \in Threads : thr[u].pc = "idle"
       /\ lock'.readers # {} => Paired(inner')
       /\ (\E t \in Threads : Returns(t) /\ thr[t].pc = "s_read") =>
                last'.stat[1].entries = Len(inner.access_order)]_vars

\* A get hit has returned, the second hit counted, and another caller now
\* holds the lock as a reader.
C9_Witness ==
    /\ last.op = "get"
    /\ last.path = "hit"
    /\ inner.hits = 2
    /\ Len(inner.access_order) = 2
    /\ \E t \in Threads : thr[t].pc = "s_read"

----------------------------------------------------------------------------
(* Expressions of the query engine, and their translation to store SQL *)

Col(name) == [tag |-> "Column", name |-> name]

\* a literal: Utf8(Some(s)) carries a text, Int32(Some(n)) a number
Lit(kind, s, n) == [tag |-> "Literal", kind |-> kind, s |-> s, n |-> n]

Bin(op, l, r) == [tag |-> "BinaryExpr", op |-> op, left |-> l, right |-> r]

Call(name, args) == [tag |-> "ScalarFunction", func |-> name, args |-> args]

\* any expression the translator has no case for
Unhandled == [tag |-> "IsNull"]

ColDoc == Col(<<"d", "o", "c">>)

ColDotted == Col(<<"d", "o", "c", ".", "s">>)

LitS == Lit("Utf8", <<"s">>, 0)

LitOne == Lit("Int32", <<>>, 1)

\* ScalarValue's Display, for the literals that are not Utf8(Some(_))
to_string(lit) == <<(<<"0", "1", "2", "3", "4", "5", "6", "7", "8", "9">>)[lit.n + 1]>>

starts_with(l, prefix) ==
    Len(l) >= Len(prefix) /\ SubSeq(l, 1, Len(prefix)) = prefix

strip_prefix(l, prefix) == SubSeq(l, Len(prefix) + 1, Len(l))

DocDot == <<"d", "o", "c", ".">>

\* The outcome of a call: a value, or the panic that unwinds through it.
Ok(v) == [panic |-> FALSE, val |-> v]

Abort == [panic |-> TRUE, val |-> None]

\* format!("({} AND {})", l, r), without the parentheses
and_to_sql_bare(l, r) == l \o <<" ", "A", "N", "D", " ">> \o r

\* format!("({} AND {})", l, r)
and_to_sql(l, r) == <<"(">> \o l \o <<" ", "A", "N", "D", " ">> \o r \o <<")">>

\* the equality arm, once both operands are translated
eq_to_sql(l, r) ==
    IF starts_with(l, DocDot)
    THEN <<"d", "o", "c", "-", ">", ">", "'">> \o strip_prefix(l, DocDot)
         \o <<"'", " ", "=", " ">> \o r
    ELSE l \o <<" ", "=", " ">> \o r

RECURSIVE expr_to_sql(_)
expr_to_sql(expr) ==
    IF expr.tag = "ScalarFunction" /\ expr.func = "json_extract_path"
    THEN IF Len(expr.args) < 1 THEN Abort
         ELSE LET col == expr_to_sql(expr.args[1])
              IN IF col.panic THEN Abort
                 ELSE IF col.val = None THEN Ok(None)
                 ELSE IF Len(expr.args) < 2 THEN Abort
                 ELSE IF expr.args[2].tag = "Literal" /\ expr.args[2].kind = "Utf8"
                 THEN Ok(Some(col.val[1] \o <<"-", ">", ">", "'">> \o expr.args[2].s \o <<"'">>))
                 ELSE Ok(None)
    ELSE IF expr.tag = "ScalarFunction" /\ expr.func \in {"json_contains", "json_multi_contains"}
    THEN IF Len(expr.args) < 1 THEN Abort
         ELSE LET col == expr_to_sql(expr.args[1])
              IN IF col.panic THEN Abort
                 ELSE IF col.val = None THEN Ok(None)
                 ELSE IF Len(expr.args) < 2 THEN Abort
                 ELSE LET pat == expr_to_sql(expr.args[2])
                      IN IF pat.panic THEN Abort
                         ELSE IF pat.val = None THEN Ok(None)
                         ELSE Ok(Some(col.val[1] \o <<" ", "@", ">", " ">> \o pat.val[1]))
    ELSE IF expr.tag = "BinaryExpr" /\ expr.op \in {"Eq", "And"}
    THEN LET l == expr_to_sql(expr.left)
         IN IF l.panic THEN Abort
            ELSE IF l.val = None THEN Ok(None)
            ELSE LET r == expr_to_sql(expr.right)
                 IN IF r.panic THEN Abort
                    ELSE IF r.val = None THEN Ok(None)
                    ELSE IF expr.op = "And"
                    THEN Ok(Some(and_to_sql(l.val[1], r.val[1])))
                    ELSE Ok(Some(eq_to_sql(l.val[1], r.val[1])))
    ELSE IF expr.tag = "Column" THEN Ok(Some(expr.name))
    ELSE IF expr.tag = "Literal"
    THEN IF expr.kind = "Utf8"
         THEN Ok(Some(<<"'">> \o expr.s \o <<"'">>))
         ELSE Ok(Some(to_string(expr)))
    ELSE Ok(None)

\* conds.join(" AND ")
RECURSIVE join(_, _)
join(conds, sep) ==
    IF conds = <<>> THEN <<>>
    ELSE IF Len(conds) = 1 THEN conds[1]
    ELSE conds[1] \o sep \o join(Tail(conds), sep)

\* filters.iter().filter_map(expr_to_sql).collect(), or the panic of a filter
RECURSIVE filter_map(_)
filter_map(filters) ==
    IF filters = <<>> THEN Ok(<<>>)
    ELSE LET first == expr_to_sql(Head(filters))
         IN IF first.panic THEN Abort
            ELSE LET rest == filter_map(Tail(filters))
                 IN IF rest.panic THEN Abort
                    ELSE Ok(first.val \o rest.val)

\* no clause at all as soon as one filter does not translate
filters_to_sql_strict(filters) ==
    LET conds == filter_map(filters)
    IN IF conds.panic THEN Abort
       ELSE IF Len(conds.val) < Len(filters) \/ conds.val = <<>> THEN Ok(None)
       ELSE Ok(Some(<<" ", "W", "H", "E", "R", "E", " ">>
                    \o join(conds.val, <<" ", "A", "N", "D", " ">>)))

filters_to_sql(filters) ==
    LET conds == filter_map(filters)
    IN IF conds.panic THEN Abort
       ELSE IF conds.val = <<>> THEN Ok(None)
       ELSE Ok(Some(<<" ", "W", "H", "E", "R", "E", " ">>
                    \o join(conds.val, <<" ", "A", "N", "D", " ">>)))

\* every filter is Exact only when all of them translate
supports_filters_pushdown_joint(filters) ==
    Ok([i \in 1..Len(filters) |->
            IF \A j \in 1..Len(filters) : expr_to_sql(filters[j]).val # None
            THEN "Exact" ELSE "Unsupported"])

\* the decisions, or the panic of a filter
supports_filters_pushdown(filters) ==
    IF \E i \in 1..Len(filters) : expr_to_sql(filters[i]).panic THEN Abort
    ELSE Ok([i \in 1..Len(filters) |->
                 IF expr_to_sql(filters[i]).val # None THEN "Exact" ELSE "Unsupported"])

SelectFrom ==
    <<"S", "E", "L", "E", "C", "T", " ", "i", "d", ",", " ",
      "d", "o", "c", ":", ":", "t", "e", "x", "t", " ",
      "F", "R", "O", "M", " ", "d", "o", "c", "u", "m", "e", "n", "t", "s">>

\* the text of the query a scan sends to the store
scan_query(filters) ==
    LET where_clause == filters_to_sql(filters)
    IN IF where_clause.panic THEN Abort
       ELSE Ok(SelectFrom \o (IF where_clause.val = None THEN <<>> ELSE where_clause.val[1]))

----------------------------------------------------------------------------
(* The translator applied to the expressions the engine can hand to it *)

\* The cache of a process that only plans queries: as constructed, untouched.
Quiet ==
    /\ ttl = MaxTtl
    /\ max_size = MaxSize
    /\ inner = new(ttl, max_size)
    /\ poisoned = FALSE
    /\ now = 0
    /\ reqs = [r \in 1..NumReq |-> IdleReq]
    /\ last = Record("new", <<>>, None, "", None)
    /\ lru_order = <<>>
    /\ last_put = EmptyMap
    /\ n_in = <<>>
    /\ n_out = <<>>
    /\ lock = Unlocked
    /\ thr = [t \in Threads |-> IdleThr]

QuietVars ==
    <<inner, ttl, max_size, poisoned, now, reqs, last, lru_order, last_put,
      n_in, n_out, lock, thr>>

Leaves == {ColDoc, ColDotted, LitS, LitOne, Unhandled}

Operators == {"Eq", "And", "Gt"}

Functions == {"json_extract_path", "json_contains", "json_multi_contains"}

RECURSIVE Depth(_)
Depth(expr) ==
    IF expr.tag = "BinaryExpr"
    THEN 1 + (IF Depth(expr.left) > Depth(expr.right)
              THEN Depth(expr.left) ELSE Depth(expr.right))
    ELSE IF expr.tag = "ScalarFunction"
    THEN IF Len(expr.args) = 0 THEN 1
         ELSE IF Len(expr.args) = 1 THEN 1 + Depth(expr.args[1])
         ELSE 1 + (IF Depth(expr.args[1]) > Depth(expr.args[2])
                   THEN Depth(expr.args[1]) ELSE Depth(expr.args[2]))
    ELSE 0

\* x_in is the expression, x_out what expr_to_sql returned for it.
Translated(expr) ==
    /\ x_in' = expr
    /\ x_out' = expr_to_sql(expr)
    /\ UNCHANGED QuietVars

InitExpr ==
    /\ Quiet
    /\ x_in \in Leaves
    /\ x_out = expr_to_sql(x_in)

\* The expression becomes an operand of a binary expression.
WrapBinary(op, sibling, side) ==
    Translated(IF side = "left" THEN Bin(op, x_in, sibling) ELSE Bin(op, sibling, x_in))

\* The expression becomes an argument of a call the engine has type-checked.
WrapCall(func, sibling, side) ==
    Translated(IF side = "left" THEN Call(func, <<x_in, sibling>>)
               ELSE Call(func, <<sibling, x_in>>))

\* The expression becomes the argument of a call built by hand with too few
\* arguments, or such a call is built with none.
WrapCallShort(func, n) ==
    Translated(IF n = 1 THEN Call(func, <<x_in>>) ELSE Call(func, <<>>))

\* Expressions grow to MaxDepth levels.
Shallow == Depth(x_in) < MaxDepth

ExprNext ==
    \/ Shallow /\ \E op \in Operators, s \in Leaves \cup {x_in}, side \in {"left", "right"} :
                      WrapBinary(op, s, side)
    \/ Shallow /\ \E f \in Functions, s \in Leaves \cup {x_in}, side \in {"left", "right"} :
                      WrapCall(f, s, side)

\* Expressions as the engine builds them.
SpecExpr == InitExpr /\ [][ExprNext]_vars

ExprAnyNext ==
    \/ ExprNext
    \/ Shallow /\ \E f \in Functions, n \in 0..1 : WrapCallShort(f, n)

\* Every expression tree, well-formed or not.
SpecExprAny == InitExpr /\ [][ExprAnyNext]_vars

----------------------------------------------------------------------------
(* Planning and scanning a query with a list of filters *)

FilterPool ==
    { Bin("Eq", ColDotted, LitS),
      Bin("Eq", Call("json_extract_path", <<ColDoc, LitS>>), LitS),
      Call("json_contains", <<ColDoc, LitS>>),
      Bin("And", Bin("Eq", ColDotted, LitS), Bin("Eq", ColDoc, LitOne)),
      Bin("Gt", ColDoc, LitOne),
      Unhandled,
      Bin("And", Bin("Eq", ColDotted, LitS), Unhandled),
      Call("json_extract_path", <<ColDoc, LitOne>>) }

\* x_in is the filter list, x_out the decisions reported to the planner and
\* the query text the scan built.
Planned(filters) ==
    [decisions |-> supports_filters_pushdown(filters).val,
     query |-> scan_query(filters).val]

InitSql ==
    /\ Quiet
    /\ x_in = <<>>
    /\ x_out = Planned(x_in)

\* A query with one more filter is planned and scanned.
PlanScan(f) ==
    /\ Len(x_in) < MaxFilters
    /\ x_in' = Append(x_in, f)
    /\ x_out' = Planned(x_in')
    /\ UNCHANGED QuietVars

SqlNext == \E f \in FilterPool : PlanScan(f)

SpecSql == InitSql /\ [][SqlNext]_vars

----------------------------------------------------------------------------
(* JSON documents as texts, and serde_json's reading of them *)

\* serde_json::Value: a string, a number or an object (a map from keys to values)
Json(k, s, n, m) == [k |-> k, s |-> s, n |-> n, m |-> m]

Digits == <<"0", "1", "2", "3", "4", "5", "6", "7", "8", "9">>

Quote == "\""

RECURSIVE skip_ws(_)
skip_ws(s) == IF s # <<>> /\ Head(s) = " " THEN skip_ws(Tail(s)) ELSE s

Failed == [ok |-> FALSE, v |-> Json("null", <<>>, 0, <<>>), rest |-> <<>>]

Parsed(v, rest) == [ok |-> TRUE, v |-> v, rest |-> rest]

\* a string, read from its opening quote up to the closing one
parse_str(s) ==
    IF s = <<>> \/ Head(s) # Quote THEN Failed
    ELSE LET closing == {i \in 2..Len(s) : s[i] = Quote}
         IN IF closing = {} THEN Failed
            ELSE LET j == CHOOSE i \in closing : \A i2 \in closing : i <= i2
                 IN Parsed(Json("str", SubSeq(s, 2, j - 1), 0, <<>>), SubSeq(s, j + 1, Len(s)))

RECURSIVE parse_value(_), parse_members(_, _)
parse_value(text) ==
    LET s == skip_ws(text)
    IN IF s = <<>> THEN Failed
       ELSE IF Head(s) = Quote THEN parse_str(s)
       ELSE IF \E n \in 0..9 : Digits[n + 1] = Head(s)
       THEN Parsed(Json("num", <<>>, CHOOSE n \in 0..9 : Digits[n + 1] = Head(s), <<>>),
                   Tail(s))
       ELSE IF Head(s) = "{"
       THEN LET inside == skip_ws(Tail(s))
            IN IF inside # <<>> /\ Head(inside) = "}"
               THEN Parsed(Json("obj", <<>>, 0, <<>>), Tail(inside))
               ELSE parse_members(inside, <<>>)
       ELSE Failed

\* the members of an object after "{" or ",", added to the map m
parse_members(text, m) ==
    LET key == parse_str(skip_ws(text))
        colon == skip_ws(key.rest)
    IN IF ~key.ok \/ colon = <<>> \/ Head(colon) # ":" THEN Failed
       ELSE LET val == parse_value(Tail(colon))
                after == skip_ws(val.rest)
                map == [x \in DOMAIN m \cup {key.v.s} |-> IF x = key.v.s THEN val.v ELSE m[x]]
            IN IF ~val.ok \/ after = <<>> THEN Failed
               ELSE IF Head(after) = "," THEN parse_members(Tail(after), map)
               ELSE IF Head(after) = "}" THEN Parsed(Json("obj", <<>>, 0, map), Tail(after))
               ELSE Failed

\* serde_json::from_str(..).ok(): the whole text must be one value
from_str(text) ==
    LET r == parse_value(text)
    IN IF r.ok /\ skip_ws(r.rest) = <<>> THEN Some(r.v) ELSE None

----------------------------------------------------------------------------
(* The scalar functions json_extract_path, json_contains, json_multi_contains *)

\* ColumnarValue of Utf8: a column of cells, or one constant; a cell is None
\* (null) or Some(text)
Array(cells) == [tag |-> "Array", vals |-> cells]

Scalar(cell) == [tag |-> "Scalar", vals |-> <<cell>>]

Err == [ok |-> FALSE, vals |-> <<>>]

Done(cells) == [ok |-> TRUE, vals |-> cells]

\* a key that is absent, or holds no string, gives a null
json_extract_path_udf_null(args) ==
    IF Len(args) # 2 THEN Err
    ELSE IF args[1].tag = "Scalar"
    THEN IF args[1].vals[1] # None THEN Done(<<Some(args[1].vals[1][1])>>) ELSE Err
    ELSE IF args[2].tag = "Scalar" /\ args[2].vals[1] = None THEN Err
    ELSE IF args[2].tag = "Array" /\ Len(args[2].vals) # 1 THEN Err
    ELSE LET json_array == args[1].vals
             key == IF args[2].vals[1] = None THEN <<>> ELSE args[2].vals[1][1]
         IN Done([i \in 1..Len(json_array) |->
                IF json_array[i] = None THEN None
                ELSE LET parsed == from_str(json_array[i][1])
                     IN IF /\ parsed # None
                           /\ parsed[1].k = "obj"
                           /\ key \in DOMAIN parsed[1].m
                           /\ parsed[1].m[key].k = "str"
                        THEN Some(parsed[1].m[key].s)
                        ELSE None])

json_extract_path_udf(args) ==
    IF Len(args) # 2 THEN Err
    ELSE IF args[1].tag = "Scalar"
    THEN IF args[1].vals[1] # None THEN Done(<<Some(args[1].vals[1][1])>>) ELSE Err
    ELSE IF args[2].tag = "Scalar" /\ args[2].vals[1] = None THEN Err
    ELSE IF args[2].tag = "Array" /\ Len(args[2].vals) # 1 THEN Err
    ELSE LET json_array == args[1].vals
             key == IF args[2].vals[1] = None THEN <<>> ELSE args[2].vals[1][1]
         IN Done([i \in 1..Len(json_array) |->
                IF json_array[i] = None THEN None
                ELSE LET parsed == from_str(json_array[i][1])
                     IN IF /\ parsed # None
                           /\ parsed[1].k = "obj"
                           /\ key \in DOMAIN parsed[1].m
                           /\ parsed[1].m[key].k = "str"
                        THEN Some(parsed[1].m[key].s)
                        ELSE Some(<<>>)])

json_contains_udf(args) ==
    IF Len(args) # 2 THEN Err
    ELSE IF args[1].tag # "Array" THEN Err
    ELSE IF args[2].tag # "Array" THEN Err
    ELSE LET arr_doc == args[1].vals
             arr_pat == args[2].vals
         IN Done([i \in 1..Len(arr_doc) |->
                IF arr_doc[i] = None \/ arr_pat[i] = None THEN None
                ELSE LET v_doc == from_str(arr_doc[i][1])
                         v_pat == from_str(arr_pat[i][1])
                     IN Some(/\ v_doc # None /\ v_doc[1].k = "obj"
                             /\ v_pat # None /\ v_pat[1].k = "obj"
                             /\ \A k \in DOMAIN v_pat[1].m :
                                    /\ k \in DOMAIN v_doc[1].m
                                    /\ v_doc[1].m[k] = v_pat[1].m[k])])

\* one key of the pattern found in the document is enough
json_multi_contains_udf_any(args) ==
    IF Len(args) # 2 THEN Err
    ELSE IF args[1].tag # "Array" THEN Err
    ELSE IF args[2].tag # "Array" THEN Err
    ELSE LET arr_doc == args[1].vals
             arr_pat == args[2].vals
         IN Done([i \in 1..Len(arr_doc) |->
                IF arr_doc[i] = None \/ arr_pat[i] = None THEN None
                ELSE LET v_doc == from_str(arr_doc[i][1])
                         v_pat == from_str(arr_pat[i][1])
                     IN Some(/\ v_doc # None /\ v_doc[1].k = "obj"
                             /\ v_pat # None /\ v_pat[1].k = "obj"
                             /\ \E k \in DOMAIN v_pat[1].m :
                                    /\ k \in DOMAIN v_doc[1].m
                                    /\ v_doc[1].m[k] = v_pat[1].m[k])])

json_multi_contains_udf(args) ==
    IF Len(args) # 2 THEN Err
    ELSE IF args[1].tag # "Array" THEN Err
    ELSE IF args[2].tag # "Array" THEN Err
    ELSE LET arr_doc == args[1].vals
             arr_pat == args[2].vals
         IN Done([i \in 1..Len(arr_doc) |->
                IF arr_doc[i] = None \/ arr_pat[i] = None THEN None
                ELSE LET v_doc == from_str(arr_doc[i][1])
                         v_pat == from_str(arr_pat[i][1])
                     IN Some(/\ v_doc # None /\ v_doc[1].k = "obj"
                             /\ v_pat # None /\ v_pat[1].k = "obj"
                             /\ \A k \in DOMAIN v_pat[1].m :
                                    /\ k \in DOMAIN v_doc[1].m
                                    /\ v_doc[1].m[k] = v_pat[1].m[k])])

----------------------------------------------------------------------------
(* Batches of documents handed to the scalar functions *)

\* the text the store gives for a jsonb value (doc::text)
RECURSIVE jsonb_out(_)
jsonb_out(v) ==
    IF v.k = "str" THEN <<Quote>> \o v.s \o <<Quote>>
    ELSE IF v.k = "num" THEN <<Digits[v.n + 1]>>
    ELSE LET keys == SelectSeq(<<<<"s">>, <<"t">>>>, LAMBDA k : k \in DOMAIN v.m)
             members == [i \in 1..Len(keys) |->
                            <<Quote>> \o keys[i] \o <<Quote, ":", " ">> \o jsonb_out(v.m[keys[i]])]
         IN <<"{">> \o join(members, <<",", " ">>) \o <<"}">>

\* What the cells of a batch are made from: a null, the text of a JSON value
\* ("json"), that text cut short ("cut"), or the bare text of a string ("raw").
\* docs are the documents, seconds the keys and patterns.
Pools ==
    LET str(t) == Json("str", t, 0, <<>>)
        one == Json("num", <<>>, 1, <<>>)
        obj(m) == Json("obj", <<>>, 0, m)
        s_is(v) == obj([x \in {<<"s">>} |-> v])
        s_t_are(v, w) == obj([x \in {<<"s">>, <<"t">>} |-> IF x = <<"s">> THEN v ELSE w])
        made(form, src) == [form |-> form, src |-> src]
    IN [docs |-> { made("null", str(<<>>)),
                   made("json", s_is(str(<<"v">>))),
                   made("json", s_is(one)),
                   made("json", s_t_are(str(<<"v">>), one)),
                   made("json", str(<<"v">>)),
                   made("cut", s_is(str(<<"v">>))) },
        seconds |-> { made("null", str(<<>>)),
                      made("raw", str(<<"s">>)),
                      made("raw", str(<<"t">>)),
                      made("json", s_is(str(<<"v">>))),
                      made("json", obj(<<>>)),
                      made("json", s_t_are(str(<<"v">>), one)) }]

Cell(made) ==
    IF made.form = "null" THEN None
    ELSE IF made.form = "raw" THEN Some(made.src.s)
    ELSE LET text == jsonb_out(made.src)
         IN IF made.form = "cut" THEN Some(SubSeq(text, 1, Len(text) - 1)) ELSE Some(text)

\* the two arguments of a call on the batch: each a column of the batch, or
\* the constant of its first row
Args(batch) ==
    << IF batch.first = "Array" THEN Array([i \in 1..Len(batch.rows) |-> Cell(batch.rows[i][1])])
       ELSE Scalar(Cell(batch.rows[1][1])),
       IF batch.second = "Array" THEN Array([i \in 1..Len(batch.rows) |-> Cell(batch.rows[i][2])])
       ELSE Scalar(Cell(batch.rows[1][2])) >>

\* x_in is the batch, x_out what each of the three functions returned for it.
Evaluated(batch) ==
    [extract |-> json_extract_path_udf(Args(batch)),
     contains |-> json_contains_udf(Args(batch)),
     multi |-> json_multi_contains_udf(Args(batch))]

InitUdf ==
    /\ Quiet
    /\ \E d \in Pools.docs, p \in Pools.seconds, first \in {"Array", "Scalar"},
          second \in {"Array", "Scalar"} :
           x_in = [rows |-> << <<d, p>> >>, first |-> first, second |-> second]
    /\ x_out = Evaluated(x_in)

\* The batch has one more row.
AddRow(d, p) ==
    /\ Len(x_in.rows) < MaxRows
    /\ x_in' = [x_in EXCEPT !.rows = Append(@, <<d, p>>)]
    /\ x_out' = Evaluated(x_in')
    /\ UNCHANGED QuietVars

UdfNext == \E d \in Pools.docs, p \in Pools.seconds : AddRow(d, p)

SpecUdf == InitUdf /\ [][UdfNext]_vars

----------------------------------------------------------------------------
(* A pushed-down filter in the store and in the engine *)

\* The rows of the table (jsonb documents) the store selects for the fragment
\* doc->>'<key>' = '<text>': ->> gives NULL for a NULL document, for a document
\* that is no object and for an absent key, the string itself for a string
\* and the JSON text for any other value; a comparison with NULL selects
\* nothing.
store_select(fragment, table) ==
    LET texts == {<<"s">>, <<"t">>, <<"v">>, <<"1">>, <<>>}
        read == {kt \in texts \X texts :
                     fragment = <<"d", "o", "c", "-", ">", ">", "'">> \o kt[1]
                                \o <<"'", " ", "=", " ", "'">> \o kt[2] \o <<"'">>}
        kt == CHOOSE x \in read : TRUE
        field(made) ==
            IF made.form = "null" \/ made.src.k # "obj" \/ kt[1] \notin DOMAIN made.src.m
            THEN None
            ELSE IF made.src.m[kt[1]].k = "str" THEN Some(made.src.m[kt[1]].s)
            ELSE Some(jsonb_out(made.src.m[kt[1]]))
    IN [i \in 1..Len(table) |-> read # {} /\ field(table[i]) = Some(kt[2])]

\* The rows the engine keeps when it evaluates json_extract_path(doc, key) =
\* literal itself on the documents' texts; a null compares to null.
engine_select(filter, table) ==
    LET col == json_extract_path_udf(<<Array([i \in 1..Len(table) |-> Cell(table[i])]),
                                       Scalar(Some(filter.left.args[2].s))>>)
    IN [i \in 1..Len(table) |-> col.ok /\ col.vals[i] = Some(filter.right.s)]

\* x_in is a filter and the table, x_out the rows selected either way.
Pushed(q) ==
    [exact |-> supports_filters_pushdown(<<q.filter>>).val[1] = "Exact",
     store |-> store_select(expr_to_sql(q.filter).val[1], q.table),
     engine |-> engine_select(q.filter, q.table)]

InitPush ==
    /\ Quiet
    /\ \E key \in {<<"s">>, <<"t">>}, text \in {<<"v">>, <<"1">>, <<>>} :
           x_in = [filter |-> Bin("Eq", Call("json_extract_path",
                                             <<ColDoc, Lit("Utf8", key, 0)>>),
                                  Lit("Utf8", text, 0)),
                   table |-> <<>>]
    /\ x_out = Pushed(x_in)

\* A document is stored, and the query runs again.
InsertDoc(d) ==
    /\ Len(x_in.table) < MaxRows
    /\ d.form # "cut"
    /\ x_in' = [x_in EXCEPT !.table = Append(@, d)]
    /\ x_out' = Pushed(x_in')
    /\ UNCHANGED QuietVars

PushNext == \E d \in Pools.docs : InsertDoc(d)

SpecPush == InitPush /\ [][PushNext]_vars

----------------------------------------------------------------------------
(* PostgresTable::scan and the plan it returns.  In this specification x_in
   is the arguments of the scan and x_out the scan's position, the
   connections it holds, and what it and its plan returned. *)

MaxStoreRows == 2

MaxProj == 2

MaxExecs == 2

schema ==
    <<[name |-> "id", data_type |-> "Int32", nullable |-> FALSE],
      [name |-> "doc", data_type |-> "Utf8", nullable |-> TRUE]>>

\* what the store can answer: rows of an id and a doc::text that may be NULL
StoreRows ==
    UNION { [1..n -> [id : 1..2, doc : {None, Some(<<"a">>)}]] : n \in 0..MaxStoreRows }

ScanArgs ==
    [proj : {None} \cup {Some(p) : p \in UNION { [1..n -> 0..Len(schema)] : n \in 0..MaxProj }},
     filters : {<<>>, <<Bin("Eq", ColDotted, LitS)>>},
     limit : {None, Some(0)}]

\* Ok(Arc<SimpleExec>), Err(DataFusionError) and the panic of a scan
Plan(batch, fields) ==
    [kind |-> "plan", batches |-> <<batch>>, schema |-> fields, variant |-> "", cause |-> ""]

Failure(variant, cause) ==
    [kind |-> "error", batches |-> <<>>, schema |-> <<>>, variant |-> variant, cause |-> cause]

Panicked(cause) ==
    [kind |-> "panic", batches |-> <<>>, schema |-> <<>>, variant |-> "", cause |-> cause]

\* The two builders filled from the rows: Row::get panics on a value it
\* cannot convert, and a NULL is no String.
decode(rows) ==
    IF \E i \in 1..Len(rows) : rows[i].doc = None THEN Abort
    ELSE Ok(<<[i \in 1..Len(rows) |-> Some(rows[i].id)],
              [i \in 1..Len(rows) |-> rows[i].doc]>>)

\* RecordBatch::try_new, which takes the row count from the first column
try_new(fields, columns) ==
    IF columns = <<>> THEN Failure("ArrowError", "try_new")
    ELSE Plan([schema |-> fields, columns |-> columns, num_rows |-> Len(columns[1])], fields)

\* The projected schema and arrays: fields[i] is indexed before the arm that
\* reports an invalid index is reached.
project(proj, arrays) ==
    IF proj # None /\ \E j \in 1..Len(proj[1]) : proj[1][j] >= Len(schema)
    THEN Panicked("fields")
    ELSE LET indices == IF proj = None THEN <<0, 1>> ELSE proj[1]
         IN try_new([j \in 1..Len(indices) |-> schema[indices[j] + 1]],
                    [j \in 1..Len(indices) |-> arrays[indices[j] + 1]])

\* scan has built its query text and is about to ask the pool
Started(args) ==
    [pc |-> "get", held |-> 0, gets |-> 0, query |-> scan_query(args.filters).val,
     rows |-> <<>>, result |-> None, streams |-> <<>>, yielded |-> 0, polled |-> None]

InitScan ==
    /\ Quiet
    /\ x_in \in ScanArgs
    /\ x_out = Started(x_in)

\* The engine calls scan again, on the same table.
ScanCall(args) ==
    /\ x_out.pc = "done"
    /\ x_in' = args
    /\ x_out' = Started(args)
    /\ UNCHANGED QuietVars

\* Query, but a rejected query keeps its connection
Query_leaking(ok, rows) ==
    /\ x_out.pc = "query"
    /\ x_out' = IF ok
                THEN [x_out EXCEPT !.pc = "build", !.rows = rows]
                ELSE [x_out EXCEPT !.pc = "done",
                                   !.result = Some(Failure("Execution", "query"))]
    /\ UNCHANGED <<x_in, QuietVars>>

\* self.pool.get().await
PoolGet(ok) ==
    /\ x_out.pc = "get"
    /\ x_out' = IF ok
                THEN [x_out EXCEPT !.pc = "query", !.gets = @ + 1, !.held = @ + 1]
                ELSE [x_out EXCEPT !.pc = "done", !.gets = @ + 1,
                                   !.result = Some(Failure("Execution", "pool"))]
    /\ UNCHANGED <<x_in, QuietVars>>

\* client.query(&q, &[]).await; the early return drops the client
Query(ok, rows) ==
    /\ x_out.pc = "query"
    /\ x_out' = IF ok
                THEN [x_out EXCEPT !.pc = "build", !.rows = rows]
                ELSE [x_out EXCEPT !.pc = "done", !.held = @ - 1,
                                   !.result = Some(Failure("Execution", "query"))]
    /\ UNCHANGED <<x_in, QuietVars>>

\* The rest of scan, which does not await; the client is dropped on return
\* and when a panic unwinds.
Build ==
    /\ x_out.pc = "build"
    /\ LET arrays == decode(x_out.rows)
       IN x_out' = [x_out EXCEPT !.pc = "done", !.held = @ - 1,
                                 !.result = Some(IF arrays.panic THEN Panicked("get")
                                                 ELSE project(x_in.proj, arrays.val))]
    /\ UNCHANGED <<x_in, QuietVars>>

\* SimpleExec::execute: a stream over a clone of the plan's batches
Execute ==
    /\ x_out.pc = "done"
    /\ x_out.result[1].kind = "plan"
    /\ Len(x_out.streams) < MaxExecs
    /\ x_out' = [x_out EXCEPT !.streams = Append(@, x_out.result[1].batches)]
    /\ UNCHANGED <<x_in, QuietVars>>

\* The engine pulls the next item of a stream.
Poll(i) ==
    /\ i \in 1..Len(x_out.streams)
    /\ x_out' = IF x_out.streams[i] = <<>>
                THEN [x_out EXCEPT !.polled = None]
                ELSE [x_out EXCEPT !.polled = Some(Head(x_out.streams[i])),
                                   !.streams[i] = Tail(@),
                                   !.yielded = @ + 1]
    /\ UNCHANGED <<x_in, QuietVars>>

\* the steps of the scan itself, which the runtime drives to completion
ScanStep ==
    \/ \E ok \in BOOLEAN : PoolGet(ok)
    \/ \E ok \in BOOLEAN, rows \in StoreRows : Query(ok, rows)
    \/ Build

ScanNext ==
    \/ \E args \in ScanArgs : ScanCall(args)
    \/ ScanStep
    \/ Execute
    \/ \E i \in 1..MaxExecs : Poll(i)

\* Scans of the table, one after the other, and the engine running the plans.
SpecScan == InitScan /\ [][ScanNext]_vars

\* The same, with every scan that was called driven to its end.
SpecScanFair == SpecScan /\ WF_vars(ScanStep)

----------------------------------------------------------------------------
(* The translator applied to string literals and keys of any content *)

InitQuote ==
    /\ Quiet
    /\ x_in \in {Lit("Utf8", s, 0) : s \in Texts}
    /\ x_out = expr_to_sql(x_in)

\* The literal becomes the key of json_extract_path(doc, key).
ExtractKey ==
    /\ x_in.tag = "Literal"
    /\ Translated(Call("json_extract_path", <<ColDoc, x_in>>))

\* The extracted field is compared with a string literal.
CompareWith(s) ==
    /\ x_in.tag = "ScalarFunction"
    /\ Translated(Bin("Eq", x_in, Lit("Utf8", s, 0)))

QuoteNext ==
    \/ ExtractKey
    \/ \E s \in Texts : CompareWith(s)

\* Filters over string literals with letters, spaces and quote characters.
SpecQuote == InitQuote /\ [][QuoteNext]_vars

----------------------------------------------------------------------------
(* Properties of the translator *)

RECURSIVE Subexprs(_)
Subexprs(expr) ==
    {expr} \cup
    (IF expr.tag = "BinaryExpr" THEN Subexprs(expr.left) \cup Subexprs(expr.right)
     ELSE IF expr.tag = "ScalarFunction"
     THEN UNION {Subexprs(expr.args[i]) : i \in 1..Len(expr.args)}
     ELSE {})

\* What the translator returned for a part of the expression in hand.
Fragment(expr) == IF expr = x_in THEN x_out.val ELSE expr_to_sql(expr).val

IsBinary(expr, op) == expr.tag = "BinaryExpr" /\ expr.op = op

\* C14: translation never fails: whatever the expression tree, a call of a
\* recognized function with fewer than two arguments included, expr_to_sql
\* returns a fragment or none.
C14_NeverFails == x_out.panic = FALSE

\* C15: at every nesting depth an AND translates to "(<l> AND <r>)" when both
\* operands translate, and to none when either operand does not.
C15_AndBothOrNone ==
    \A e \in Subexprs(x_in) :
        IsBinary(e, "And") =>
            LET l == Fragment(e.left)
                r == Fragment(e.right)
            IN Fragment(e) =
                   IF l # None /\ r # None
                   THEN Some(<<"(">> \o l[1] \o <<" ", "A", "N", "D", " ">> \o r[1] \o <<")">>)
                   ELSE None

\* an AND whose only untranslatable operand lies one level down was turned away
C15_Witness ==
    /\ IsBinary(x_in, "And")
    /\ IsBinary(x_in.left, "And")
    /\ Fragment(x_in.left.left) = None
    /\ Fragment(x_in.left.right) # None
    /\ Fragment(x_in.right) # None
    /\ x_out = Ok(None)

IsDotted(expr) == expr.tag = "Column" /\ starts_with(expr.name, DocDot)

\* C16: an equality on the dotted column doc.<field> translates to
\* "doc->>'<field>' = <r>", the fragment of the equality on
\* extract_path(doc, '<field>'); every other equality translates to
\* "<l> = <r>" with the left fragment as it is.
C16_EqDottedOnly ==
    IsBinary(x_in, "Eq") /\ x_out.val # None =>
        LET l == Fragment(x_in.left)
            r == Fragment(x_in.right)
        IN IF IsDotted(x_in.left)
           THEN LET field == strip_prefix(x_in.left.name, DocDot)
                    call == Call("json_extract_path", <<ColDoc, Lit("Utf8", field, 0)>>)
                IN /\ x_out.val = Some(<<"d", "o", "c", "-", ">", ">", "'">> \o field
                                       \o <<"'", " ", "=", " ">> \o r[1])
                   /\ x_out.val = expr_to_sql(Bin("Eq", call, x_in.right)).val
           ELSE x_out.val = Some(l[1] \o <<" ", "=", " ">> \o r[1])

Translates(f) == expr_to_sql(f).val # None

\* the clause for a filter list, one filter at a time from the front
RECURSIVE WhereOf(_)
WhereOf(filters) ==
    IF filters = <<>> THEN <<>>
    ELSE LET before == WhereOf(SubSeq(filters, 1, Len(filters) - 1))
             f == filters[Len(filters)]
         IN IF ~Translates(f) THEN before
            ELSE IF before = <<>>
            THEN <<" ", "W", "H", "E", "R", "E", " ">> \o expr_to_sql(f).val[1]
            ELSE before \o <<" ", "A", "N", "D", " ">> \o expr_to_sql(f).val[1]

\* C11: the scan's WHERE clause is made of the fragments of the filters that
\* translate, in input order, joined by AND; a filter that does not translate
\* adds nothing and changes nothing, and there is no clause when none translates.
C11_WhereIsTranslatable ==
    /\ x_out.query = SelectFrom \o WhereOf(x_in)
    /\ (\A i \in 1..Len(x_in) : ~Translates(x_in[i])) => x_out.query = SelectFrom

\* [A translatable, B not, C translatable] was scanned
C11_Witness ==
    /\ Len(x_in) = 3
    /\ Translates(x_in[1]) /\ ~Translates(x_in[2]) /\ Translates(x_in[3])
    /\ x_in[1] # x_in[3]
    /\ Len(x_out.query) > Len(SelectFrom)

\* the filters reported Exact, in order
RECURSIVE Kept(_, _)
Kept(filters, decisions) ==
    IF filters = <<>> THEN <<>>
    ELSE (IF Head(decisions) = "Exact" THEN <<Head(filters)>> ELSE <<>>)
         \o Kept(Tail(filters), Tail(decisions))

\* C12: one decision per filter, in order: Exact exactly when the filter
\* translates, Unsupported otherwise, whatever its siblings are; and the
\* scan's WHERE clause holds the fragments of exactly the filters reported Exact.
C12_DecisionPerFilter ==
    /\ Len(x_out.decisions) = Len(x_in)
    /\ \A i \in 1..Len(x_in) :
           /\ x_out.decisions[i] = (IF Translates(x_in[i]) THEN "Exact" ELSE "Unsupported")
           /\ x_out.decisions[i] = supports_filters_pushdown(<<x_in[i]>>).val[1]
    /\ x_out.query = SelectFrom \o WhereOf(Kept(x_in, x_out.decisions))

\* a list where a filter reported Unsupported sits between two reported Exact
C12_Witness ==
    /\ Len(x_in) = 3
    /\ x_out.decisions = <<"Exact", "Unsupported", "Exact">>
    /\ ~Translates(x_in[2])

----------------------------------------------------------------------------
(* Properties of the scalar functions *)

Rows == x_in.rows

\* the key of a call whose second argument is one constant
Key == Cell(Rows[1][2])[1]

ColumnAndKey ==
    /\ x_in.first = "Array"
    /\ x_in.second = "Scalar"
    /\ Rows[1][2].form # "null"

\* what the document the cell was made from holds at the key
Held(made, key) ==
    IF made.form = "null" THEN None
    ELSE IF /\ made.form = "json"
            /\ made.src.k = "obj"
            /\ key \in DOMAIN made.src.m
            /\ made.src.m[key].k = "str"
    THEN Some(made.src.m[key].s)
    ELSE Some(<<>>)

\* C17: over a column of documents extract_path gives one output per row, in
\* the rows' order: null for a null document, the string at the key when the
\* document parses and holds a string at that top-level key, and the empty
\* string when it fails to parse, lacks the key or holds no string there.
C17_ExtractPerRow ==
    ColumnAndKey =>
        /\ x_out.extract.ok
        /\ Len(x_out.extract.vals) = Len(Rows)
        /\ \A i \in 1..Len(Rows) : x_out.extract.vals[i] = Held(Rows[i][1], Key)

\* a column whose first document holds a string at the key and whose second
\* parses but does not
C17_Witness ==
    /\ ColumnAndKey
    /\ Len(Rows) = 2
    /\ Rows[2][1].form = "json"
    /\ x_out.extract = Done(<<Some(<<"v">>), Some(<<>>)>>)

\* C18: extract_path on one constant document returns what the document holds
\* at the key (the string, or the empty string), not the document's text.
C18_ScalarDocExtracts ==
    /\ x_in.first = "Scalar"
    /\ x_in.second = "Scalar"
    /\ Rows[1][1].form # "null"
    /\ Rows[1][2].form # "null"
    => x_out.extract = Done(<<Held(Rows[1][1], Key)>>)

\* whether the document a cell was made from contains the pattern another was
\* made from
Within(doc, pat) ==
    IF doc.form = "null" \/ pat.form = "null" THEN None
    ELSE Some(/\ doc.form = "json" /\ doc.src.k = "obj"
              /\ pat.form = "json" /\ pat.src.k = "obj"
              /\ \A k \in DOMAIN pat.src.m :
                     k \in DOMAIN doc.src.m /\ doc.src.m[k] = pat.src.m[k])

\* C19: contains and multi_contains return the same for every input; per row
\* the result is null when the document or the pattern is null, true when both
\* are JSON objects and every top-level key of the pattern is in the document
\* with an equal value, and false otherwise.
C19_ContainsPerRow ==
    /\ x_out.contains = x_out.multi
    /\ x_in.first = "Array" /\ x_in.second = "Array" =>
           /\ x_out.multi.ok
           /\ Len(x_out.multi.vals) = Len(Rows)
           /\ \A i \in 1..Len(Rows) : x_out.multi.vals[i] = Within(Rows[i][1], Rows[i][2])

\* the empty pattern is found in an object, and a pattern with two keys is not
\* found in a document that has only one of them
C19_Witness ==
    /\ x_in.first = "Array" /\ x_in.second = "Array"
    /\ Len(Rows) = 2
    /\ Rows[1][2].form = "json" /\ Rows[1][2].src.k = "obj" /\ DOMAIN Rows[1][2].src.m = {}
    /\ Rows[2][1].form = "json" /\ Rows[2][1].src.k = "obj" /\ DOMAIN Rows[2][1].src.m = {<<"s">>}
    /\ Rows[2][2].form = "json" /\ DOMAIN Rows[2][2].src.m = {<<"s">>, <<"t">>}
    /\ x_out.multi = Done(<<Some(TRUE), Some(FALSE)>>)

\* C20: given a column of documents, each of the three functions takes its
\* second argument as one constant or as a column with a value per row, and
\* returns one output per document row without an error.
C20_SecondArgEitherShape ==
    /\ x_in.first = "Array"
    /\ \A i \in 1..Len(Rows) : Rows[i][2].form # "null"
    => /\ x_out.extract.ok /\ Len(x_out.extract.vals) = Len(Rows)
       /\ x_out.contains.ok /\ Len(x_out.contains.vals) = Len(Rows)
       /\ x_out.multi.ok /\ Len(x_out.multi.vals) = Len(Rows)

----------------------------------------------------------------------------
(* Properties of pushdown *)

\* C13: for a filter reported Exact the store's fragment selects exactly the
\* rows on which the engine's own evaluation of the filter is true, whatever
\* the documents are (key absent, value not a string, ...).
C13_ExactSelectsSame == x_out.exact => x_out.store = x_out.engine

----------------------------------------------------------------------------
(* Properties of the cache: its recency order, and clear *)

\* C28: after any sequence of get, put and clear the recency order holds
\* exactly the keys of the entry map, each once; so the first key of the order
\* of a non-empty cache, the one put evicts, is a stored key.
C28_OrderIsKeys ==
    /\ OrderKeys(inner) = Stored
    /\ Len(inner.access_order) = Cardinality(Stored)
    /\ Stored # {} => Oldest # {} /\ Oldest \subseteq Stored

\* a put has just evicted from a full cache of two, after a hit moved a key
C28_Witness ==
    /\ last.op = "put"
    /\ last.evicted # None
    /\ Cardinality(Stored) = 2
    /\ inner.hits > 0

\* C29: clear removes every entry and empties the recency order, leaves the
\* hit and miss counters, the TTL and max_size as they were, and a get right
\* after it is a miss.
C29_ClearFrame ==
    [][/\ Ran("clear") =>
           /\ inner'.entries = EmptyMap
           /\ inner'.access_order = <<>>
           /\ inner'.hits = inner.hits
           /\ inner'.misses = inner.misses
           /\ ttl' = ttl /\ max_size' = max_size
       /\ last.op = "clear" /\ Ran("get") =>
           /\ last'.path = "miss"
           /\ last'.ret = None
           /\ inner'.misses = inner.misses + 1]_vars

\* a used cache was cleared, and the get after it missed
C29_Witness ==
    /\ last.op = "get"
    /\ last.path = "miss"
    /\ inner.hits = 1
    /\ inner.misses = 1
    /\ Stored = {}
    /\ last_put = EmptyMap
    /\ now = 0

----------------------------------------------------------------------------
(* Properties of execute_query *)

Running == {r \in 1..NumReq : reqs[r].pc = "running"}

\* C26: execute_query looks the normalized key up first. A hit returns the
\* cached rows and runs no query; a miss runs the query, and the rows are put
\* in the cache only when the query succeeded with at most 1000 rows: a
\* failed query or a larger result leaves every cache entry as it was.
C26_CacheBeforeQuery ==
    [][/\ last'.op \in {"execute_query", "lookup"} =>
           last'.key = normalize_query(last'.sql)
       /\ last'.op = "execute_query" /\ last'.path = "cached" =>
           /\ last'.key \in Stored
           /\ last'.ret = Some(inner.entries[last'.key].data)
           /\ reqs' = reqs
       /\ last'.op = "lookup" =>
           /\ last'.key \notin DOMAIN inner'.entries
           /\ Cardinality({r \in 1..NumReq : reqs'[r].pc = "running"})
                  = Cardinality(Running) + 1
       /\ last'.op = "execute_query" /\ last'.path # "cached" =>
           /\ Cardinality({r \in 1..NumReq : reqs'[r].pc = "running"})
                  = Cardinality(Running) - 1
           /\ IF last'.path = "executed_cached"
              THEN /\ last'.ret[1].len <= CacheRowLimit
                   /\ inner'.entries[last'.key].data = last'.ret[1]
              ELSE /\ last'.path = "failed" \/ last'.ret[1].len > CacheRowLimit
                   /\ inner' = inner]_vars

\* a result of more than 1000 rows was returned and not stored, next to an
\* entry stored earlier
C26_Witness ==
    /\ last.op = "execute_query"
    /\ last.path = "executed"
    /\ last.ret[1].len > CacheRowLimit
    /\ last.key \notin Stored
    /\ Stored # {}

\* C30: create_document and bulk_create_documents leave the query cache as
\* it is, whatever they insert; execute_query of a query whose entry is
\* stored and not expired returns the rows of the latest put of that key,
\* also when documents were inserted since.
C30_WritesKeepCache ==
    [][/\ last'.op \in {"create_document", "bulk_create_documents"} =>
           /\ inner' = inner
           /\ last_put' = last_put
       /\ /\ last'.op = "lookup" \/ last'.path = "cached"
          /\ last'.key \in Stored
          /\ Age(last'.key) <= ttl
          => /\ last'.path = "cached"
             /\ last'.ret = Some(last_put[last'.key].rows)
             /\ last'.ret = Some(inner.entries[last'.key].data)]_vars

\* a query answered from the cache with rows computed before two documents
\* were inserted
C30_Witness ==
    /\ last.op = "execute_query"
    /\ last.path = "cached"
    /\ last.ret[1].tag = 0
    /\ Len(x_in) = 2
    /\ now > 0

----------------------------------------------------------------------------
(* Properties of the translator: quoting *)

\* the text after an opening quote, read as the rest of one SQL string
\* constant that ends where the text ends ('' stands for a quote character)
RECURSIVE ConstantBody(_)
ConstantBody(t) ==
    IF t = <<>> THEN None
    ELSE IF t[1] # "'"
    THEN LET rest == ConstantBody(Tail(t))
         IN IF rest = None THEN None ELSE Some(<<t[1]>> \o rest[1])
    ELSE IF Len(t) = 1 THEN Some(<<>>)
    ELSE IF t[2] # "'" THEN None
    ELSE LET rest == ConstantBody(SubSeq(t, 3, Len(t)))
         IN IF rest = None THEN None ELSE Some(<<"'">> \o rest[1])

\* the value of the fragment when it is exactly one string constant
StringConstant(f) == IF f = <<>> \/ f[1] # "'" THEN None ELSE ConstantBody(Tail(f))

ExtractOf(col) == col \o <<"-", ">", ">">>

\* C27: a string literal s is emitted as one quoted string constant whose
\* value is s, and the key of json_extract_path as one quoted key, so that
\* no literal or key changes the structure of the clause.
C27_QuotedExactly ==
    /\ x_in.tag = "Literal" => StringConstant(x_out.val[1]) = Some(x_in.s)
    /\ x_in.tag = "ScalarFunction" =>
           /\ starts_with(x_out.val[1], ExtractOf(ColDoc.name))
           /\ StringConstant(strip_prefix(x_out.val[1], ExtractOf(ColDoc.name)))
                  = Some(x_in.args[2].s)
    /\ x_in.tag = "BinaryExpr" =>
           LET left == expr_to_sql(x_in.left).val[1] \o <<" ", "=", " ">>
           IN /\ starts_with(x_out.val[1], left)
              /\ StringConstant(strip_prefix(x_out.val[1], left)) = Some(x_in.right.s)

----------------------------------------------------------------------------
(* Properties of scan *)

Ended == x_out.pc = "done"

Outcome == x_out.result[1]

\* the store answered the query of this scan
Answered == Ended /\ Outcome.cause \notin {"pool", "query"}

Decodable == \A i \in 1..Len(x_out.rows) : x_out.rows[i].doc # None

\* C21: a scan with a projection list returns a batch of exactly the
\* requested columns in the requested order, with the matching schema fields
\* and the values and row order of those columns in the unprojected scan;
\* projection [1] gives the one column of contents.
C21_ProjectedColumns ==
    /\ Answered
    /\ Decodable
    /\ x_in.proj # None
    /\ \A j \in 1..Len(x_in.proj[1]) : x_in.proj[1][j] < Len(schema)
    => /\ Outcome.kind = "plan"
       /\ LET indices == x_in.proj[1]
              batch == Outcome.batches[1]
              full == project(None, decode(x_out.rows).val).batches[1]
          IN /\ Len(batch.columns) = Len(indices)
             /\ Len(batch.schema) = Len(indices)
             /\ Outcome.schema = batch.schema
             /\ \A j \in 1..Len(indices) :
                    /\ batch.columns[j] = full.columns[indices[j] + 1]
                    /\ batch.schema[j] = schema[indices[j] + 1]
             /\ indices = <<1>> =>
                    batch.columns = <<[i \in 1..Len(x_out.rows) |-> x_out.rows[i].doc]>>

\* C22: what a successful scan returns yields exactly one batch and then
\* ends, and cannot be started again to yield that batch a second time.
C22_YieldsOnce ==
    /\ \A i \in 1..Len(x_out.streams) : Len(x_out.streams[i]) <= 1
    /\ x_out.yielded <= 1

\* C23: a failure to get a connection, a rejected query and a row that
\* cannot be decoded each end the scan with a typed error, after one attempt
\* and with no batch.
C23_TypedErrors ==
    Ended /\ (Outcome.cause \in {"pool", "query"} \/ ~Decodable)
    => /\ Outcome.kind = "error"
       /\ Outcome.variant # ""
       /\ Outcome.batches = <<>>
       /\ x_out.gets = 1

\* C24: a scan asks the pool for a connection once and holds at most that
\* one; a held connection is released in the end, on every path, so that a
\* finished scan holds none; and the result of a scan is decided by its own
\* arguments and what the store answered to it.
C24_OneConnection ==
    /\ [](/\ x_out.held \in {0, 1}
          /\ x_out.gets <= 1
          /\ x_out.pc \in {"query", "build"} => x_out.gets = 1 /\ x_out.held = 1
          /\ Ended => x_out.gets = 1 /\ x_out.held = 0
          /\ Answered =>
                 Outcome = IF Decodable THEN project(x_in.proj, decode(x_out.rows).val)
                           ELSE Panicked("get"))
    /\ (x_out.held = 1 ~> x_out.held = 0)

\* a scan whose query the store rejected has ended, and holds no connection
C24_Witness ==
    /\ Ended
    /\ Outcome.cause = "query"
    /\ x_out.gets = 1
    /\ x_out.held = 0

\* C25: a successful scan has one row per row of the store's answer, in
\* that order, the id and the content of each decoded as the schema says,
\* a NULL content as a null value; the limit argument does not change the
\* query text or the number of rows.
C25_RowPerStoreRow ==
    /\ x_out.query = scan_query(x_in.filters).val
    /\ Answered /\ x_in.proj = None =>
           /\ Outcome.kind = "plan"
           /\ LET batch == Outcome.batches[1]
              IN /\ batch.num_rows = Len(x_out.rows)
                 /\ batch.schema = schema
                 /\ batch.columns[1] = [i \in 1..Len(x_out.rows) |-> Some(x_out.rows[i].id)]
                 /\ batch.columns[2] = [i \in 1..Len(x_out.rows) |-> x_out.rows[i].doc]

====
